---- MODULE Spec2Model ----
(***************************************************************************)
(* A model of mujoco_py/mjviewer.py: the viewer classes MjViewerBasic and  *)
(* MjViewer, their GLFW input callbacks, the gamepad bridge and the lock   *)
(* around camera updates and drawing.                                      *)
(*                                                                         *)
(* Numbers.  The Python floats are kept as exact fixed-point integers:     *)
(*   target, old_target, xyz bounds, rlim, scale   in units of 0.001       *)
(*   joystick_scale, dx, dy, dz, elbow_force       in units of 0.1         *)
(*   gravity                                       in units of 0.01        *)
(* Python's None is the empty tuple <<>> and a present value x is <<x>>    *)
(* wherever a field may hold either (rlim, xboxContId, xbox_val, action).  *)
(***************************************************************************)
EXTENDS Integers, Sequences, FiniteSets, TLC

VARIABLES
    self,       \* the MjViewer object: one record field per attribute
    camera,     \* the last move_camera call received by the render context
    last,       \* the last callback handled, with its arguments and locals
    nev,        \* how many callbacks have been handled so far
    pc,         \* per thread: the statement it is at
    gui_lock,   \* self._gui_lock: TRUE while the lock is held
    local       \* per thread: the arguments and locals of its running call

vars == <<self, camera, last, nev, pc, gui_lock, local>>

----------------------------------------------------------------------------
(* Bounds of the model. *)

\* callbacks handled in one behaviour of Spec
MaxEvents == 3

\* callbacks handled in one behaviour of SpecTarget
MaxTargetEvents == 2

\* callbacks handled in one behaviour of SpecMouse
MaxMouseEvents == 3

\* calls started in one behaviour of SpecThreads
MaxCalls == 4

----------------------------------------------------------------------------
(* GLFW constants used by the callbacks. *)

RELEASE == 0
PRESS == 1
REPEAT == 2

None == <<>>
Some(x) == <<x>>

\* self.keys
keys ==
    [mars |-> "KEY_1", earth |-> "KEY_2", moon |-> "KEY_3", jupiter |-> "KEY_4",
     ISS |-> "KEY_5",
     left |-> "KEY_LEFT", right |-> "KEY_RIGHT", forward |-> "KEY_UP",
     backward |-> "KEY_DOWN", z_toggle |-> "KEY_LEFT_ALT",
     hot_keys |-> "KEY_SPACE", exit |-> "KEY_ESCAPE", hide_overlay |-> "KEY_H",
     restart |-> "KEY_F5", demo_toggle |-> "KEY_ENTER",
     reach_target |-> "KEY_F1", pick_up |-> "KEY_F2", drop_off |-> "KEY_F3",
     path_vis |-> "KEY_F4",
     adapt |-> "KEY_LEFT_SHIFT", move_elbow |-> "KEY_TAB",
     mass_up |-> "KEY_U", mass_down |-> "KEY_Y"]

\* self.gravities: the z component of each planet's gravity, x and y are 0
gravities ==
    [earth |-> <<0, 0, -981>>, moon |-> <<0, 0, -162>>, mars |-> <<0, 0, -371>>,
     jupiter |-> <<0, 0, -2492>>, ISS |-> <<0, 0, 0>>]

\* self.planet_names
planet_names ==
    [i \in 0..4 |-> CASE i = 0 -> "mars" [] i = 1 -> "earth" [] i = 2 -> "moon"
                      [] i = 3 -> "jupiter" [] OTHER -> "ISS"]

\* self.planet_ids
planet_ids == [mars |-> 0, earth |-> 1, moon |-> 2, jupiter |-> 3, ISS |-> 4]

\* self.id2xbox
id2xbox ==
    [i \in 0..17 |->
        CASE i = 0 -> "lthumbx" [] i = 1 -> "lthumby" [] i = 2 -> "ltrigger"
          [] i = 3 -> "rthumbx" [] i = 4 -> "rthumby" [] i = 5 -> "rtrigger"
          [] i = 6 -> "A" [] i = 7 -> "B" [] i = 8 -> "X" [] i = 9 -> "Y"
          [] i = 10 -> "LB" [] i = 11 -> "RB" [] i = 12 -> "back"
          [] i = 13 -> "start" [] i = 14 -> "xbox" [] i = 15 -> "lthumb"
          [] i = 16 -> "rthumb" [] OTHER -> "dpad"]

\* self.buttons_to_glfw
buttons_to_glfw ==
    [A |-> "None", B |-> keys.restart, X |-> keys.move_elbow,
     Y |-> keys.demo_toggle, LB |-> keys.pick_up, RB |-> keys.reach_target,
     back |-> keys.exit, start |-> keys.hot_keys, xbox |-> keys.adapt]

\* the keys a keyboard can send: every bound key and three unbound letters
\* (S, F, V)
KeyCodes ==
    {keys[n] : n \in DOMAIN keys} \cup {"KEY_S", "KEY_F", "KEY_V"}

KeyActions == {RELEASE, PRESS, REPEAT}

----------------------------------------------------------------------------
(* Construction: MjViewerBasic.__init__ followed by MjViewer.__init__. *)

\* the state after MjViewer(sim, display_all_text) on a window whose
\* framebuffer is fb_scale times its size
NewViewer(display_all_text, fb_scale) ==
    [_button_left_pressed |-> FALSE,
     _button_right_pressed |-> FALSE,
     _last_mouse_x |-> 0,
     _last_mouse_y |-> 0,
     _scale |-> fb_scale,
     exit |-> FALSE,
     restart |-> FALSE,
     _paused |-> FALSE,
     _advance_by_one_step |-> FALSE,
     _record_video |-> FALSE,
     _video_queue |-> 0,
     _run_speed |-> 1,
     _loop_count |-> 0,
     _render_every_frame |-> FALSE,
     _hide_overlay |-> FALSE,
     target |-> <<0, 0, 0>>,
     old_target |-> <<0, 0, 0>>,
     scale |-> 50,
     xyz_lowerbound |-> <<-500, -500, 1>>,
     xyz_upperbound |-> <<500, 500, 700>>,
     rlim |-> <<Some(400), Some(1000)>>,
     reach_mode |-> "reach_target",
     reach_mode_changed |-> FALSE,
     toggle_demo |-> FALSE,
     key_pressed |-> FALSE,
     adapt |-> FALSE,
     display_all_text |-> display_all_text,
     dumbbell_mass_index |-> 0,
     planet |-> "earth",
     planet_id |-> planet_ids["earth"],
     gravity |-> gravities["earth"],
     restart_sim |-> FALSE,
     move_elbow |-> FALSE,
     target_moved |-> FALSE,
     elbow_force |-> <<0, 0, 0, 0, 0, 0>>,
     display_hotkeys |-> FALSE,
     use_controller |-> FALSE,
     xboxContId |-> None,
     xbox_val |-> None,
     joystick_scale |-> 10,
     target_z_toggle |-> FALSE,
     elbox_z_toggle |-> FALSE,
     deadzone |-> None,
     _time_per_render |-> 16,
     _user_overlay |-> <<>>,
     _overlay |-> <<>>,
     _markers |-> <<>>,
     sim |-> [timestep |-> 12, nsubsteps |-> 1]]

----------------------------------------------------------------------------
(* MjViewerBasic.key_callback: ESC released closes the viewer. *)

base_key_callback(s, key, action) ==
    IF action = RELEASE /\ key = keys.exit
    THEN [s EXCEPT !.exit = TRUE]
    ELSE s

----------------------------------------------------------------------------
(* MjViewer.key_callback.                                                  *)
(* A handler result is [s, d, arrow_keys]: the viewer after the branch, the *)
(* locals <<dx, dy, dz>> and the local arrow_keys.                          *)

NoMove(s) == [s |-> s, d |-> <<0, 0, 0>>, arrow_keys |-> FALSE]

Arrow(s, d) ==
    [s |-> [s EXCEPT !.key_pressed = TRUE], d |-> d, arrow_keys |-> TRUE]

\* the branch "if action != glfw.RELEASE": held keys; z_held is
\* glfw.get_key(window, self.keys['z_toggle'])
key_press_branch(s, key, z_held) ==
    IF z_held \/ s.target_z_toggle
    THEN IF key = keys.forward THEN Arrow(s, <<0, 0, s.joystick_scale>>)
         ELSE IF key = keys.backward THEN Arrow(s, <<0, 0, -s.joystick_scale>>)
         ELSE NoMove(s)
    ELSE LET dx == IF key = keys.left THEN -s.joystick_scale
                   ELSE IF key = keys.right THEN s.joystick_scale
                   ELSE 0
             dy == IF key = keys.forward THEN s.joystick_scale
                   ELSE IF key = keys.backward THEN -s.joystick_scale
                   ELSE 0
         IN IF key \in {keys.left, keys.right, keys.forward, keys.backward}
            THEN Arrow(s, <<dx, dy, 0>>)
            ELSE NoMove(s)

\* the planet hotkeys of the release branch: only self.planet is assigned
set_planet(s, name) == [s EXCEPT !.planet = name]

\* the branch "elif action == glfw.RELEASE": the elif chain, in its order
key_release_branch(s, key, z_held) ==
    IF key = keys.hide_overlay
        THEN NoMove([s EXCEPT !._hide_overlay = ~s._hide_overlay])
    ELSE IF key = keys.hot_keys
        THEN NoMove([s EXCEPT !.display_hotkeys = ~s.display_hotkeys])
    ELSE IF z_held /\ key = keys.forward
        THEN Arrow(s, <<0, 0, s.joystick_scale>>)
    ELSE IF z_held /\ key = keys.backward
        THEN Arrow(s, <<0, 0, -s.joystick_scale>>)
    ELSE IF key = keys.left THEN Arrow(s, <<-s.joystick_scale, 0, 0>>)
    ELSE IF key = keys.right THEN Arrow(s, <<s.joystick_scale, 0, 0>>)
    ELSE IF key = keys.forward THEN Arrow(s, <<0, s.joystick_scale, 0>>)
    ELSE IF key = keys.backward THEN Arrow(s, <<0, -s.joystick_scale, 0>>)
    ELSE IF key = keys.reach_target
        THEN NoMove([s EXCEPT !.reach_mode = "reach_target",
                              !.reach_mode_changed = TRUE, !.key_pressed = TRUE])
    ELSE IF key = keys.pick_up
        THEN NoMove([s EXCEPT !.reach_mode = "pick_up",
                              !.reach_mode_changed = TRUE, !.key_pressed = TRUE])
    ELSE IF key = keys.drop_off
        THEN NoMove([s EXCEPT !.reach_mode = "drop_off",
                              !.reach_mode_changed = TRUE, !.key_pressed = TRUE])
    ELSE IF key = keys.adapt
        THEN NoMove([s EXCEPT !.adapt = ~s.adapt, !.key_pressed = TRUE])
    ELSE IF key = keys.mass_up
        THEN NoMove([s EXCEPT !.dumbbell_mass_index = @ + 1])
    ELSE IF key = keys.mass_down
        THEN NoMove([s EXCEPT !.dumbbell_mass_index = @ - 1])
    ELSE IF key = keys.mars THEN NoMove(set_planet(s, "mars"))
    ELSE IF key = keys.earth THEN NoMove(set_planet(s, "earth"))
    ELSE IF key = keys.moon THEN NoMove(set_planet(s, "moon"))
    ELSE IF key = keys.jupiter THEN NoMove(set_planet(s, "jupiter"))
    ELSE IF key = keys.ISS THEN NoMove(set_planet(s, "ISS"))
    ELSE IF key = keys.restart THEN NoMove([s EXCEPT !.restart_sim = TRUE])
    ELSE IF key = keys.demo_toggle
        THEN NoMove([s EXCEPT !.toggle_demo = TRUE, !.key_pressed = TRUE])
    ELSE IF key = keys.move_elbow
        THEN NoMove([s EXCEPT !.move_elbow = ~s.move_elbow])
    ELSE NoMove(s)

\* both branches, each ending in super().key_callback
key_branches(s, key, action, z_held) ==
    LET r == IF action # RELEASE
             THEN key_press_branch(s, key, z_held)
             ELSE key_release_branch(s, key, z_held)
    IN [r EXCEPT !.s = base_key_callback(r.s, key, action)]

\* x^2 + y^2 + z^2, for np.linalg.norm comparisons against a bound r >= 0:
\* norm < r iff Norm2 < r^2
Norm2(t) == t[1] * t[1] + t[2] * t[2] + t[3] * t[3]

\* np.clip(t, lo, hi), componentwise
clip(t, lo, hi) ==
    [i \in 1..3 |-> IF t[i] < lo[i] THEN lo[i] ELSE IF t[i] > hi[i] THEN hi[i] ELSE t[i]]

\* a variant of add_elbow_force that adds to all six components
add_elbow_force_all(s, d) ==
    [s EXCEPT !.elbow_force =
        [i \in 1..6 |-> s.elbow_force[i] + d[((i - 1) % 3) + 1] * 10]]

\* self.elbow_force[:3] += np.array([dx, dy, dz]) * 10
add_elbow_force(s, d) ==
    [s EXCEPT !.elbow_force =
        [i \in 1..6 |-> IF i <= 3 THEN s.elbow_force[i] + d[i] * 10
                        ELSE s.elbow_force[i]]]

\* The target is an array of float64 values and np.linalg.norm rounds: a
\* norm that is exactly a threshold in the units of 0.001 comes out below,
\* at or above the threshold, depending on the low bits of the floats.  A
\* rounding <<e1, e2>> gives the sign of that error for the test against
\* rlim[0] and for the test against rlim[1].
Rounding == {-1, 0, 1}

NoRounding == <<0, 0>>

\* np.linalg.norm(t) < r, with the rounding e at equality
norm_below(t, r, e) == Norm2(t) < r * r \/ (Norm2(t) = r * r /\ e < 0)

\* np.linalg.norm(t) > r, with the rounding e at equality
norm_above(t, r, e) == Norm2(t) > r * r \/ (Norm2(t) = r * r /\ e > 0)

\* the radius thresholds: a moved target outside [rlim[0], rlim[1]] is
\* replaced by old_target, each threshold only when it is not None
radius_check(s, moved, rnd) ==
    LET t1 == IF s.rlim[1] # None /\ norm_below(moved, s.rlim[1][1], rnd[1])
              THEN s.target ELSE moved
        t2 == IF s.rlim[2] # None /\ norm_above(t1, s.rlim[2][1], rnd[2])
              THEN s.target ELSE t1
    IN t2

\* a variant of clip_target that leaves out the clip
clip_target_unclipped(s, t) == t

\* the final np.clip of the target to the box
clip_target(s, t) == clip(t, s.xyz_lowerbound, s.xyz_upperbound)

\* the else branch of "if self.move_elbow": old_target, the step of
\* scale * (dx, dy, dz), the radius check, the clip and target_moved
move_target(s, d, rnd) ==
    LET moved == [i \in 1..3 |-> s.target[i] + (s.scale * d[i]) \div 10]
    IN [s EXCEPT !.old_target = s.target,
                 !.target = clip_target(s, radius_check(s, moved, rnd)),
                 !.target_moved = TRUE]

\* the roundings that can occur when the target of s moves by d: only a
\* norm that is exactly a threshold can round to either side
target_roundings(s, d) ==
    LET moved == [i \in 1..3 |-> s.target[i] + (s.scale * d[i]) \div 10]
        at1 == s.rlim[1] # None /\ Norm2(moved) = s.rlim[1][1] * s.rlim[1][1]
        at2 == s.rlim[2] # None /\
                   \/ Norm2(moved) = s.rlim[2][1] * s.rlim[2][1]
                   \/ Norm2(s.target) = s.rlim[2][1] * s.rlim[2][1]
    IN (IF at1 THEN Rounding ELSE {0}) \X (IF at2 THEN Rounding ELSE {0})

\* the block "if arrow_keys:"
apply_arrow(s, d, rnd) ==
    IF s.move_elbow THEN add_elbow_force(s, d) ELSE move_target(s, d, rnd)

\* the whole handler
key_callback(s, key, action, z_held, rnd) ==
    LET r == key_branches(s, key, action, z_held)
    IN IF r.arrow_keys THEN apply_arrow(r.s, r.d, rnd) ELSE r.s

\* the roundings that can occur in this call of the handler
key_roundings(s, key, action, z_held) ==
    LET r == key_branches(s, key, action, z_held)
    IN IF r.arrow_keys /\ ~r.s.move_elbow THEN target_roundings(r.s, r.d)
       ELSE {NoRounding}

\* the handler's locals when it reaches "if arrow_keys:"
key_locals(s, key, action, z_held) ==
    LET r == key_branches(s, key, action, z_held)
    IN [d |-> r.d, arrow_keys |-> r.arrow_keys]

----------------------------------------------------------------------------
(* MjViewerBasic: the mouse callbacks.  A cursor coordinate is given in    *)
(* half pixels (xpos = h / 2), so that int() has something to truncate; a  *)
(* camera call is [action, dx, dy, den, n]: move_camera(action, dx / den,  *)
(* dy / den), the n-th call.                                               *)

\* Python's int() of the quotient n / d, d > 0: truncation towards zero
Trunc(n, d) == IF n >= 0 THEN n \div d ELSE -((-n) \div d)

\* int(self._scale * xpos) for xpos = h / 2
scaled(s, h) == Trunc(s._scale * h, 2)

\* the height glfw.get_framebuffer_size reports for a 480-row window
framebuffer_height(s) == s._scale * 480

_mouse_button_callback(s, left_down, right_down, x, y) ==
    [s EXCEPT !._button_left_pressed = left_down,
              !._button_right_pressed = right_down,
              !._last_mouse_x = scaled(s, x),
              !._last_mouse_y = scaled(s, y)]

\* a variant of cursor_action that tests the left button first
cursor_action_left_first(s, mod_shift) ==
    IF s._button_left_pressed
    THEN (IF mod_shift THEN "MOUSE_ROTATE_H" ELSE "MOUSE_ROTATE_V")
    ELSE IF s._button_right_pressed
    THEN (IF mod_shift THEN "MOUSE_MOVE_H" ELSE "MOUSE_MOVE_V")
    ELSE "MOUSE_ZOOM"

\* "Determine whether to move, zoom or rotate view"
cursor_action(s, mod_shift) ==
    IF s._button_right_pressed
    THEN (IF mod_shift THEN "MOUSE_MOVE_H" ELSE "MOUSE_MOVE_V")
    ELSE IF s._button_left_pressed
    THEN (IF mod_shift THEN "MOUSE_ROTATE_H" ELSE "MOUSE_ROTATE_V")
    ELSE "MOUSE_ZOOM"

\* the locals action, dx, dy and height of _cursor_pos_callback
cursor_locals(s, xpos, ypos, mod_shift) ==
    [action |-> cursor_action(s, mod_shift),
     dx |-> scaled(s, xpos) - s._last_mouse_x,
     dy |-> scaled(s, ypos) - s._last_mouse_y,
     height |-> framebuffer_height(s)]

\* self.move_camera(action, dx / height, dy / height)
cursor_move_camera(cam, l) ==
    [action |-> l.action, dx |-> l.dx, dy |-> l.dy, den |-> l.height,
     n |-> cam.n + 1]

\* the two assignments after the with block
cursor_store(s, xpos, ypos) ==
    [s EXCEPT !._last_mouse_x = scaled(s, xpos), !._last_mouse_y = scaled(s, ypos)]

\* the early return of _cursor_pos_callback
cursor_ignored(s) == ~(s._button_left_pressed \/ s._button_right_pressed)

\* the whole callback: [s, camera]
_cursor_pos_callback(s, cam, xpos, ypos, mod_shift) ==
    IF cursor_ignored(s)
    THEN [s |-> s, camera |-> cam]
    ELSE [s |-> cursor_store(s, xpos, ypos),
          camera |-> cursor_move_camera(cam, cursor_locals(s, xpos, ypos, mod_shift))]

\* self.move_camera(const.MOUSE_ZOOM, 0, -0.05 * y_offset): -5 y_offset / 100
_scroll_callback(cam, y_offset) ==
    [action |-> "MOUSE_ZOOM", dx |-> 0, dy |-> -5 * y_offset, den |-> 100,
     n |-> cam.n + 1]

\* cursor coordinates, in half pixels, and scroll offsets GLFW may report
CursorHalf == {-3, 5}

ScrollOffsets == {-1, 0, 2}

----------------------------------------------------------------------------
(* MjViewer.render, the recording branch of render_inner_loop: one frame   *)
(* is put on the video queue (_video_queue is the number of frames put).   *)

record_frame(s) ==
    IF s._record_video THEN [s EXCEPT !._video_queue = @ + 1] ELSE s

----------------------------------------------------------------------------
(* MjViewer.render and _create_full_overlay.                               *)
(* Times (timestep, _time_per_render, the wall clock) are in units of      *)
(* 1/960 s, so 1/60 s is 16; _loop_count is in units of 1/LoopUnit.  The   *)
(* overlay is the sequence of the text1 labels of its entries in the order *)
(* they were added; _markers is the sequence of the markers added.         *)

LoopUnit == 60

\* add_overlay(gridpos, text1, text2) of the render context
add_overlay(s, text1) == [s EXCEPT !._overlay = Append(@, text1)]

\* add_marker(**marker_params) of the render context
add_marker(s, marker) == [s EXCEPT !._markers = Append(@, marker)]

\* the name "extra" of the FPS line is bound nowhere: evaluating it raises
\* NameError
ExtraIsBound == FALSE

\* the entries of "if self.display_all_text:" up to "[H]ide Menu"
default_text_head(s) ==
    <<IF s._render_every_frame THEN "" ELSE "Run speed",
      IF ~s._paused THEN "Stop" ELSE "Start",
      "[H]ide Menu">>

\* the entries of "if self.display_all_text:" from the FPS line on
default_text_tail ==
    <<"FPS", "Solver iterations", "Step", "timestep", "n_substeps",
      "Toggle geomgroup visibility">>

\* the entries under "# CUSTOM KEYS" and the four GRID_TOPRIGHT entries
custom_keys_text ==
    <<"Toggle adaptation", "Move target along X/Y", "Move target along Z",
      "Follow target", "Pick up object", "Dumbbell mass +1kg",
      "Dumbbell mass -1kg", "Mars Gravity", "Earth Gravity", "Moon Gravity",
      "Jupiter Gravity", "ISS Gravity",
      "Adaptation", "reach_mode", "Elbow force", "custom_print">>

\* _create_full_overlay: [s, raised], the viewer when the method ends and
\* whether it ended by raising
_create_full_overlay(s) ==
    IF s.display_all_text
    THEN IF ExtraIsBound
         THEN [s |-> [s EXCEPT !._overlay = @ \o default_text_head(s)
                                   \o default_text_tail \o custom_keys_text],
               raised |-> FALSE]
         ELSE [s |-> [s EXCEPT !._overlay = @ \o default_text_head(s)],
               raised |-> TRUE]
    ELSE [s |-> [s EXCEPT !._overlay = @ \o custom_keys_text], raised |-> FALSE]

\* a variant of build_overlay that hides only the built-in text
build_overlay_user_shown(s) ==
    IF ~s._hide_overlay
    THEN _create_full_overlay([s EXCEPT !._overlay = s._user_overlay])
    ELSE [s |-> [s EXCEPT !._overlay = s._user_overlay], raised |-> FALSE]

\* a variant of build_overlay that does not clear the overlay first
build_overlay_kept(s) ==
    IF ~s._hide_overlay
    THEN _create_full_overlay([s EXCEPT !._overlay = @ \o s._user_overlay])
    ELSE [s |-> s, raised |-> FALSE]

\* render_inner_loop up to super().render(): the overlay is cleared and,
\* unless hidden, refilled from _user_overlay and _create_full_overlay
build_overlay(s) ==
    IF ~s._hide_overlay
    THEN _create_full_overlay([s EXCEPT !._overlay = s._user_overlay])
    ELSE [s |-> [s EXCEPT !._overlay = <<>>], raised |-> FALSE]

\* the increment of _loop_count: timestep * nsubsteps /
\* (_time_per_render * _run_speed)
loop_increment(s) ==
    (s.sim.timestep * s.sim.nsubsteps * LoopUnit)
        \div (s._time_per_render * s._run_speed)

\* render up to its loops: _user_overlay is a copy of the overlay and, not
\* paused, _loop_count grows by the increment (or is set to 1)
render_begin(s) ==
    LET u == [s EXCEPT !._user_overlay = s._overlay]
    IN IF u._paused THEN u
       ELSE [u EXCEPT !._loop_count =
                IF u._render_every_frame THEN LoopUnit
                ELSE @ + loop_increment(u)]

\* 0.9 * _time_per_render + 0.1 * elapsed
time_per_render(s, elapsed) == (9 * s._time_per_render + elapsed) \div 10

\* the rest of render_inner_loop after super().render(): a frame for the
\* video, or the new _time_per_render
after_base_render(s, elapsed) ==
    IF s._record_video THEN record_frame(s)
    ELSE [s EXCEPT !._time_per_render = time_per_render(s, elapsed)]

\* the end of a pass: the rest of render_inner_loop, then the paused loop
\* stops after an advance by one step and the unpaused loop counts down;
\* loc is where the loop goes on
end_pass(s, elapsed, paused) ==
    LET a == after_base_render(s, elapsed)
    IN [s |-> IF paused THEN [a EXCEPT !._advance_by_one_step = FALSE]
              ELSE [a EXCEPT !._loop_count = @ - LoopUnit],
        loc |-> IF paused /\ a._advance_by_one_step THEN "r_end" ELSE "r_loop"]

\* the end of render: markers and overlay are emptied
render_end(s) == [s EXCEPT !._markers = <<>>, !._overlay = <<>>]

----------------------------------------------------------------------------
(* The gamepad bridge: xbox_vals, setup_xbox_controller, xbox_conversion   *)
(* and xbox_callback.  A scalar value v is <<v>>, a pair is <<x, y>>.      *)

\* the controller's callback: remember the control and its value
xbox_vals(s, xboxControlId, value) ==
    [s EXCEPT !.xboxContId = xboxControlId, !.xbox_val = value]

setup_xbox_controller(s, deadzone) ==
    [s EXCEPT !.deadzone = Some(deadzone), !.use_controller = TRUE,
              !.joystick_scale = 1]

Abs(x) == IF x < 0 THEN -x ELSE x

Max(a, b) == IF a > b THEN a ELSE b

Min(a, b) == IF a < b THEN a ELSE b

NoKey(s) == [key |-> "None", action |-> None, s |-> s]

\* a variant of thumb_key that gives a tie to the horizontal axis
thumb_key_ties_horizontal(x, y) ==
    IF x >= 0 /\ y >= 0 THEN (IF Abs(x) >= Abs(y) THEN keys.right ELSE keys.forward)
    ELSE IF x < 0 /\ y >= 0 THEN (IF Abs(x) >= Abs(y) THEN keys.left ELSE keys.forward)
    ELSE IF x < 0 /\ y < 0 THEN (IF Abs(x) >= Abs(y) THEN keys.left ELSE keys.backward)
    ELSE (IF Abs(x) >= Abs(y) THEN keys.right ELSE keys.backward)

\* the four quadrants of the right thumbstick
thumb_key(x, y) ==
    IF x >= 0 /\ y >= 0 THEN (IF Abs(x) > Abs(y) THEN keys.right ELSE keys.forward)
    ELSE IF x < 0 /\ y >= 0 THEN (IF Abs(x) > Abs(y) THEN keys.left ELSE keys.forward)
    ELSE IF x < 0 /\ y < 0 THEN (IF Abs(x) > Abs(y) THEN keys.left ELSE keys.backward)
    ELSE (IF Abs(x) > Abs(y) THEN keys.right ELSE keys.backward)

\* a variant of dpad_key that steps from self.planet_id
dpad_key_from_planet_id(s, x, y) ==
    IF y = 1 THEN [key |-> keys.mass_up, action |-> Some(RELEASE), s |-> s]
    ELSE IF y = -1 THEN [key |-> keys.mass_down, action |-> Some(RELEASE), s |-> s]
    ELSE IF x = -1
        THEN [key |-> keys[planet_names[Max(0, s.planet_id - 1)]],
              action |-> Some(RELEASE), s |-> s]
    ELSE IF x = 1
        THEN [key |-> keys[planet_names[Min(4, s.planet_id + 1)]],
              action |-> Some(RELEASE), s |-> s]
    ELSE NoKey(s)

\* the d-pad: mass up/down on the vertical axis, the neighbouring planet
\* on the horizontal axis
dpad_key(s, x, y) ==
    IF y = 1 THEN [key |-> keys.mass_up, action |-> Some(RELEASE), s |-> s]
    ELSE IF y = -1 THEN [key |-> keys.mass_down, action |-> Some(RELEASE), s |-> s]
    ELSE IF x = -1
        THEN [key |-> keys[planet_names[Max(0, planet_ids[s.planet] - 1)]],
              action |-> Some(RELEASE), s |-> s]
    ELSE IF x = 1
        THEN [key |-> keys[planet_names[Min(4, planet_ids[s.planet] + 1)]],
              action |-> Some(RELEASE), s |-> s]
    ELSE NoKey(s)

\* a variant of button_key that reports every button event as a release
button_key_released(s, button, val) ==
    [key |-> buttons_to_glfw[button], action |-> Some(RELEASE), s |-> s]

\* the final else branch: a button replays its key from buttons_to_glfw
\* with the button's value as the action
button_key(s, button, val) ==
    [key |-> buttons_to_glfw[button], action |-> val, s |-> s]

\* returns [key, action, s]: the key and action to replay, and the viewer
\* (the right trigger flips target_z_toggle here)
xbox_conversion(s) ==
    LET button == id2xbox[s.xboxContId[1]]
        val == s.xbox_val
    IN IF button \in {"rthumbx", "rthumby", "rthumb"}
       THEN IF Abs(val[1]) + Abs(val[2]) > 10
            THEN [key |-> thumb_key(val[1], val[2]), action |-> Some(1), s |-> s]
            ELSE NoKey(s)
       ELSE IF button \in {"lthumbx", "lthumby", "lthumb"} THEN NoKey(s)
       ELSE IF button = "rtrigger"
            THEN IF val[1] > 95
                 THEN NoKey([s EXCEPT !.target_z_toggle = ~s.target_z_toggle])
                 ELSE NoKey(s)
       ELSE IF button = "ltrigger" THEN NoKey(s)
       ELSE IF button = "dpad" THEN dpad_key(s, val[1], val[2])
       ELSE button_key(s, button, val)

\* what xbox_callback hands to key_callback, if anything
xbox_replay(s) ==
    IF s.use_controller /\ s.xboxContId # None THEN xbox_conversion(s) ELSE NoKey(s)

xbox_callback(s, z_held, rnd) ==
    IF s.use_controller
    THEN LET c == xbox_replay(s)
             s2 == IF c.key # "None" /\ c.action # None
                   THEN key_callback(c.s, c.key, c.action[1], z_held, rnd)
                   ELSE c.s
         IN [s2 EXCEPT !.xboxContId = None, !.xbox_val = None]
    ELSE s

\* the roundings that can occur in this call of xbox_callback
xbox_roundings(s, z_held) ==
    LET c == xbox_replay(s)
    IN IF s.use_controller /\ c.key # "None" /\ c.action # None
       THEN key_roundings(c.s, c.key, c.action[1], z_held)
       ELSE {NoRounding}

\* the controls and values a gamepad can report
ThumbAxis == {-20, 0, 6}

XboxInputs ==
    [id : {3, 4, 16}, value : ThumbAxis \X ThumbAxis]
    \cup [id : {0, 1, 15}, value : {<<0, 0>>}]
    \cup [id : {2, 5}, value : {<<0>>, <<95>>, <<100>>}]
    \cup [id : 6..14, value : {<<0>>, <<1>>}]
    \cup [id : {17}, value : {-1, 0, 1} \X {-1, 0, 1}]

----------------------------------------------------------------------------
(* Threads and the lock, idle outside the thread specification. *)

Threads == {"render", "cursor", "scroll", "button", "key"}

IdleThreads == [t \in Threads |-> "idle"]

NoLocals == [t \in Threads |-> None]

\* the render context before any move_camera call; n counts the calls
NoCall == [action |-> "None", dx |-> 0, dy |-> 0, den |-> 1, n |-> 0]

NoEvent ==
    [op |-> "init", key |-> "None", action |-> None, z_held |-> FALSE,
     d |-> <<0, 0, 0>>, arrow_keys |-> FALSE]

----------------------------------------------------------------------------
(* Spec: a viewer straight from its constructor, driven by keyboard and    *)
(* gamepad callbacks.                                                      *)

Init ==
    /\ self = NewViewer(FALSE, 1)
    /\ camera = NoCall
    /\ last = NoEvent
    /\ nev = 0
    /\ pc = IdleThreads
    /\ gui_lock = FALSE
    /\ local = NoLocals

\* GLFW delivers a key event for one of the keys K
KeyEventIn(K, max) ==
    \E key \in K, action \in KeyActions, z_held \in BOOLEAN :
        /\ nev < max
        /\ \E rnd \in key_roundings(self, key, action, z_held) :
              self' = key_callback(self, key, action, z_held, rnd)
        /\ last' = [op |-> "key", key |-> key, action |-> Some(action),
                    z_held |-> z_held,
                    d |-> key_locals(self, key, action, z_held).d,
                    arrow_keys |-> key_locals(self, key, action, z_held).arrow_keys]
        /\ nev' = nev + 1
        /\ UNCHANGED <<camera, pc, gui_lock, local>>

\* the user attaches a gamepad
SetupXbox ==
    /\ nev < MaxEvents
    /\ ~self.use_controller
    /\ self' = setup_xbox_controller(self, 75)
    /\ last' = [NoEvent EXCEPT !.op = "setup_xbox_controller"]
    /\ nev' = nev + 1
    /\ UNCHANGED <<camera, pc, gui_lock, local>>

KeyEvent == KeyEventIn(KeyCodes, MaxEvents)

\* the gamepad reports one of the controls E
XboxValsIn(E, max) ==
    \E e \in E :
        /\ nev < max
        /\ self.use_controller
        /\ self' = xbox_vals(self, Some(e.id), e.value)
        /\ last' = [NoEvent EXCEPT !.op = "xbox_vals"]
        /\ nev' = nev + 1
        /\ UNCHANGED <<camera, pc, gui_lock, local>>

XboxVals == XboxValsIn(XboxInputs, MaxEvents)

\* the main loop polls the gamepad
XboxCallbackIn(max) ==
    \E z_held \in BOOLEAN :
        LET c == xbox_replay(self)
            replayed == c.key # "None" /\ c.action # None
        IN /\ nev < max
           /\ \E rnd \in xbox_roundings(self, z_held) :
                 self' = xbox_callback(self, z_held, rnd)
           /\ last' = [op |-> "xbox_callback", key |-> c.key, action |-> c.action,
                       z_held |-> z_held,
                       d |-> IF replayed
                             THEN key_locals(c.s, c.key, c.action[1], z_held).d
                             ELSE <<0, 0, 0>>,
                       arrow_keys |-> replayed /\
                             key_locals(c.s, c.key, c.action[1], z_held).arrow_keys]
           /\ nev' = nev + 1
           /\ UNCHANGED <<camera, pc, gui_lock, local>>

XboxCallback == XboxCallbackIn(MaxEvents)

Next == KeyEvent \/ SetupXbox \/ XboxVals \/ XboxCallback

Spec == Init /\ [][Next]_vars

----------------------------------------------------------------------------
(* SpecTarget: the arrow keys on a viewer whose public attributes target,  *)
(* rlim and move_elbow were set by the caller, with or without a gamepad.  *)

ArrowKeys == {keys.left, keys.right, keys.forward, keys.backward}

\* coordinates (units of 0.001) the caller may have put in self.target
TargetXY == {-600, 0, 450}

TargetZ == {-100, 1, 350, 690}

RlimChoices ==
    {<<Some(400), Some(1000)>>, <<None, None>>, <<None, Some(600)>>}

ThumbInputs == [id : {16}, value : ThumbAxis \X ThumbAxis]

InitTarget ==
    /\ \E t \in TargetXY \X TargetXY \X TargetZ, r \in RlimChoices,
          m \in BOOLEAN, pad \in BOOLEAN :
          LET v == [NewViewer(FALSE, 1) EXCEPT !.target = t, !.rlim = r,
                                               !.move_elbow = m]
          IN self = IF pad THEN setup_xbox_controller(v, 75) ELSE v
    /\ camera = NoCall
    /\ last = NoEvent
    /\ nev = 0
    /\ pc = IdleThreads
    /\ gui_lock = FALSE
    /\ local = NoLocals

ArrowKeyEvent == KeyEventIn(ArrowKeys, MaxTargetEvents)

ThumbVals == XboxValsIn(ThumbInputs, MaxTargetEvents)

ThumbCallback == XboxCallbackIn(MaxTargetEvents)

NextTarget == ArrowKeyEvent \/ ThumbVals \/ ThumbCallback

SpecTarget == InitTarget /\ [][NextTarget]_vars

----------------------------------------------------------------------------
(* SpecPad: a viewer with a gamepad attached, after the planet hotkeys and *)
(* the right trigger were used and the caller set a target; one gamepad    *)
(* report and its replay, or forward/backward keys.                        *)

MaxPadEvents == 2

\* thumbstick deflections on both sides of the threshold of 10, with ties
PadThumbAxis == {-20, -6, -5, 0, 5, 6, 11}

PadInputs == XboxInputs \cup [id : {16}, value : PadThumbAxis \X PadThumbAxis]

PadTargets == {<<0, 0, 0>>, <<450, 0, 300>>}

InitPad ==
    /\ \E p \in DOMAIN planet_ids, z \in BOOLEAN, t \in PadTargets :
          self = [setup_xbox_controller(set_planet(NewViewer(FALSE, 1), p), 75)
                     EXCEPT !.target_z_toggle = z, !.target = t]
    /\ camera = NoCall
    /\ last = NoEvent
    /\ nev = 0
    /\ pc = IdleThreads
    /\ gui_lock = FALSE
    /\ local = NoLocals

PadVals == XboxValsIn(PadInputs, MaxPadEvents)

PadCallback == XboxCallbackIn(MaxPadEvents)

PadKeyEvent == KeyEventIn({keys.forward, keys.backward}, MaxPadEvents)

NextPad == PadVals \/ PadCallback \/ PadKeyEvent

SpecPad == InitPad /\ [][NextPad]_vars

----------------------------------------------------------------------------
(* Properties. *)

\* the last callback ran the block "if arrow_keys:"
ArrowHandled == last.op \in {"key", "xbox_callback"} /\ last.arrow_keys

InBox(s, t) ==
    \A i \in 1..3 : s.xyz_lowerbound[i] <= t[i] /\ t[i] <= s.xyz_upperbound[i]

\* the viewer states one keyboard or gamepad callback away from s
EventResults(s) ==
    {key_callback(s, k, a, z, rnd) :
        k \in KeyCodes, a \in KeyActions, z \in BOOLEAN, rnd \in Rounding \X Rounding}
    \cup {xbox_callback(s, z, rnd) : z \in BOOLEAN, rnd \in Rounding \X Rounding}
    \cup {xbox_vals(s, Some(e.id), e.value) : e \in XboxInputs}
    \cup {setup_xbox_controller(s, 75)}

\* C1: in every reachable state the gravity vector is the selected planet's
\* gravity and planet_id is the selected planet's id.
C1_GravityFollowsPlanet ==
    /\ self.gravity = gravities[self.planet]
    /\ self.planet_id = planet_ids[self.planet]

\* the direction C2 gives each arrow key: X for left/right, Y for up/down,
\* Z for up/down while the z toggle key is held
C2_Direction(key, z_held) ==
    IF key = keys.left THEN <<-1, 0, 0>>
    ELSE IF key = keys.right THEN <<1, 0, 0>>
    ELSE IF key = keys.forward THEN (IF z_held THEN <<0, 0, 1>> ELSE <<0, 1, 0>>)
    ELSE (IF z_held THEN <<0, 0, -1>> ELSE <<0, -1, 0>>)

\* C2: the first arrow-key event on a freshly constructed viewer moves the
\* target from the origin by scale x joystick_scale along the key's axis.
C2_ArrowMovesFreshTarget ==
    (nev = 1 /\ last.op = "key" /\ last.key \in ArrowKeys) =>
        self.target =
            [i \in 1..3 |->
                (self.scale * self.joystick_scale
                    * C2_Direction(last.key, last.z_held)[i]) \div 10]

\* C3: after an arrow-key event handled with move_elbow off, every
\* component of the target lies inside [xyz_lowerbound, xyz_upperbound].
C3_TargetInBox ==
    (ArrowHandled /\ ~self.move_elbow) => InBox(self, self.target)

\* C3 witness: an arrow-key event was handled with move_elbow off on a target
\* that was outside the box, and the radius check put that old target back.
C3_Witness ==
    /\ ArrowHandled /\ ~self.move_elbow
    /\ ~InBox(self, self.old_target)
    /\ self.rlim[1] # None
    /\ self.target = clip_target(self, self.old_target)

\* C4: after an arrow-key event handled with move_elbow off and both radius
\* thresholds set, rmin <= |target| <= rmax.
C4_TargetWithinRadius ==
    (ArrowHandled /\ ~self.move_elbow /\ self.rlim[1] # None /\ self.rlim[2] # None)
        => /\ self.rlim[1][1] * self.rlim[1][1] <= Norm2(self.target)
           /\ Norm2(self.target) <= self.rlim[2][1] * self.rlim[2][1]

\* one step of +-joystick_scale along exactly one axis
IsUnitStep(s, d) ==
    \E i \in 1..3, sgn \in {-1, 1} :
        d = [j \in 1..3 |-> IF j = i THEN sgn * s.joystick_scale ELSE 0]

\* C5: with move_elbow on, an arrow-key event adds 10 x joystick_scale x
\* (dx, dy, dz) to elbow_force[0:3] and leaves target, old_target,
\* target_moved and elbow_force[3:6] unchanged; with move_elbow off no
\* callback changes elbow_force.
C5_ElbowForceMode ==
    [][/\ (ArrowHandled' /\ self.move_elbow) =>
            /\ IsUnitStep(self, last'.d)
            /\ \A i \in 1..3 :
                  self'.elbow_force[i] = self.elbow_force[i] + 10 * last'.d[i]
            /\ \A i \in 4..6 : self'.elbow_force[i] = self.elbow_force[i]
            /\ self'.target = self.target
            /\ self'.old_target = self.old_target
            /\ self'.target_moved = self.target_moved
       /\ ~self.move_elbow => self'.elbow_force = self.elbow_force]_vars

\* C5 witness: an arrow-key event was handled in elbow mode and the elbow
\* force is no longer zero.
C5_Witness ==
    /\ ArrowHandled /\ self.move_elbow
    /\ self.elbow_force # <<0, 0, 0, 0, 0, 0>>
    /\ ~self.target_moved

\* C9: some keyboard or gamepad callback changes _run_speed or flips
\* _paused.
C9_SpeedHotkey ==
    \E r \in EventResults(self) :
        r._run_speed # self._run_speed \/ r._paused # self._paused

----------------------------------------------------------------------------
(* SpecThreads: MjViewerBasic.render and the callbacks as threads, one     *)
(* statement per step.  Statements:                                        *)
(*   render: r_check, r_acquire, r_draw (inside "with self._gui_lock",     *)
(*           the base-class render in progress), r_poll                    *)
(*   cursor: c_check, c_acquire, c_camera (inside the with block,          *)
(*           move_camera in progress), c_store                             *)
(*   scroll: s_acquire, s_camera (inside the with block)                   *)
(*   button: b_store            key: k_handle                              *)

\* a variant of with_gui_lock that does not wait for the lock
with_gui_lock_no_wait(locked) == TRUE

\* "with self._gui_lock:" can be entered only while the lock is free
with_gui_lock(locked) == ~locked

\* the first statement of each callback
cursor_entry == "c_check"

\* a variant of scroll_entry that calls move_camera without the with block
scroll_entry_unlocked == "s_camera"

scroll_entry == "s_acquire"

button_entry == "b_store"

key_entry == "k_handle"

\* the statements inside a "with self._gui_lock:" block
InsideWith == {"r_draw", "c_camera", "s_camera"}

\* the statements where move_camera is in progress
CameraLocs == {"c_camera", "s_camera"}

\* the statements of the callbacks that write viewer or camera state
WriteLocs == {"c_camera", "c_store", "s_camera", "b_store", "k_handle"}

Holders == {t \in Threads : pc[t] \in InsideWith}

ThreadKeyInputs ==
    {<<keys.hide_overlay, RELEASE, FALSE>>, <<keys.right, PRESS, FALSE>>,
     <<keys.forward, RELEASE, TRUE>>}

ThreadCursorInputs == {<<5, -3, FALSE>>, <<0, 5, TRUE>>}

Goto(t, loc) == pc' = [pc EXCEPT ![t] = loc]

InitThreads ==
    /\ self = NewViewer(FALSE, 1)
    /\ camera = NoCall
    /\ last = NoEvent
    /\ nev = 0
    /\ pc = IdleThreads
    /\ gui_lock = FALSE
    /\ local = NoLocals

\* the main loop calls render
RenderCall ==
    /\ pc["render"] = "idle" /\ nev < MaxCalls
    /\ Goto("render", "r_check")
    /\ nev' = nev + 1
    /\ UNCHANGED <<self, camera, last, gui_lock, local>>

\* "if self.window is None: return / elif window_should_close: exit = True"
RenderCheck ==
    /\ pc["render"] = "r_check"
    /\ \E window \in {"none", "closing", "open"} :
          /\ self' = IF window = "closing" THEN [self EXCEPT !.exit = TRUE] ELSE self
          /\ Goto("render", IF window = "none" THEN "idle" ELSE "r_acquire")
    /\ UNCHANGED <<camera, last, nev, gui_lock, local>>

\* a thread at an acquire statement enters its with block
Acquire ==
    \E t \in {"render", "cursor", "scroll"} :
        /\ pc[t] \in {"r_acquire", "c_acquire", "s_acquire"}
        /\ with_gui_lock(gui_lock)
        /\ gui_lock' = TRUE
        /\ Goto(t, CASE t = "render" -> "r_draw" [] t = "cursor" -> "c_camera"
                     [] OTHER -> "s_camera")
        /\ UNCHANGED <<self, camera, last, nev, local>>

\* super().render() returns and the with block is left
RenderDraw ==
    /\ pc["render"] = "r_draw"
    /\ gui_lock' = FALSE
    /\ Goto("render", "r_poll")
    /\ UNCHANGED <<self, camera, last, nev, local>>

\* glfw.poll_events() returns
RenderPoll ==
    /\ pc["render"] = "r_poll"
    /\ Goto("render", "idle")
    /\ UNCHANGED <<self, camera, last, nev, gui_lock, local>>

CursorCall ==
    \E a \in ThreadCursorInputs :
        /\ pc["cursor"] = "idle" /\ nev < MaxCalls
        /\ local' = [local EXCEPT !["cursor"] =
                        Some([xpos |-> a[1], ypos |-> a[2], mod_shift |-> a[3]])]
        /\ Goto("cursor", cursor_entry)
        /\ nev' = nev + 1
        /\ UNCHANGED <<self, camera, last, gui_lock>>

\* the early return, or the locals action, dx, dy, height
CursorCheck ==
    /\ pc["cursor"] = "c_check"
    /\ LET a == local["cursor"][1]
       IN IF cursor_ignored(self)
          THEN /\ Goto("cursor", "idle")
               /\ local' = [local EXCEPT !["cursor"] = None]
          ELSE /\ Goto("cursor", "c_acquire")
               /\ local' = [local EXCEPT !["cursor"] =
                    Some([xpos |-> a.xpos, ypos |-> a.ypos, mod_shift |-> a.mod_shift,
                          call |-> cursor_locals(self, a.xpos, a.ypos, a.mod_shift)])]
    /\ UNCHANGED <<self, camera, last, nev, gui_lock>>

\* move_camera returns and the with block is left
CursorCamera ==
    /\ pc["cursor"] = "c_camera"
    /\ camera' = cursor_move_camera(camera, local["cursor"][1].call)
    /\ gui_lock' = FALSE
    /\ Goto("cursor", "c_store")
    /\ UNCHANGED <<self, last, nev, local>>

CursorStore ==
    /\ pc["cursor"] = "c_store"
    /\ self' = cursor_store(self, local["cursor"][1].xpos, local["cursor"][1].ypos)
    /\ local' = [local EXCEPT !["cursor"] = None]
    /\ Goto("cursor", "idle")
    /\ UNCHANGED <<camera, last, nev, gui_lock>>

ScrollCall ==
    \E y_offset \in ScrollOffsets :
        /\ pc["scroll"] = "idle" /\ nev < MaxCalls
        /\ local' = [local EXCEPT !["scroll"] = Some(y_offset)]
        /\ Goto("scroll", scroll_entry)
        /\ nev' = nev + 1
        /\ UNCHANGED <<self, camera, last, gui_lock>>

\* move_camera returns and the with block is left
ScrollCamera ==
    /\ pc["scroll"] = "s_camera"
    /\ camera' = _scroll_callback(camera, local["scroll"][1])
    /\ gui_lock' = FALSE
    /\ local' = [local EXCEPT !["scroll"] = None]
    /\ Goto("scroll", "idle")
    /\ UNCHANGED <<self, last, nev>>

ButtonCall ==
    \E left_down \in BOOLEAN, right_down \in BOOLEAN :
        /\ pc["button"] = "idle" /\ nev < MaxCalls
        /\ local' = [local EXCEPT !["button"] =
                        Some([left_down |-> left_down, right_down |-> right_down])]
        /\ Goto("button", button_entry)
        /\ nev' = nev + 1
        /\ UNCHANGED <<self, camera, last, gui_lock>>

ButtonStore ==
    /\ pc["button"] = "b_store"
    /\ self' = _mouse_button_callback(self, local["button"][1].left_down,
                                      local["button"][1].right_down, 0, 0)
    /\ local' = [local EXCEPT !["button"] = None]
    /\ Goto("button", "idle")
    /\ UNCHANGED <<camera, last, nev, gui_lock>>

KeyCall ==
    \E a \in ThreadKeyInputs :
        /\ pc["key"] = "idle" /\ nev < MaxCalls
        /\ local' = [local EXCEPT !["key"] = Some(a)]
        /\ Goto("key", key_entry)
        /\ nev' = nev + 1
        /\ UNCHANGED <<self, camera, last, gui_lock>>

KeyHandle ==
    /\ pc["key"] = "k_handle"
    /\ LET a == local["key"][1]
       IN \E rnd \in key_roundings(self, a[1], a[2], a[3]) :
              self' = key_callback(self, a[1], a[2], a[3], rnd)
    /\ local' = [local EXCEPT !["key"] = None]
    /\ Goto("key", "idle")
    /\ UNCHANGED <<camera, last, nev, gui_lock>>

NextThreads ==
    \/ RenderCall \/ RenderCheck \/ Acquire \/ RenderDraw \/ RenderPoll
    \/ CursorCall \/ CursorCheck \/ CursorCamera \/ CursorStore
    \/ ScrollCall \/ ScrollCamera
    \/ ButtonCall \/ ButtonStore
    \/ KeyCall \/ KeyHandle

SpecThreads == InitThreads /\ [][NextThreads]_vars

----------------------------------------------------------------------------
(* SpecMouse: a new viewer driven by the mouse callbacks.  A callback that *)
(* takes _gui_lock is a sequence of steps: its statements before the with  *)
(* block, the entry into the block, the camera call that ends the block,   *)
(* and its statements after the block; other callbacks run in between.     *)

InitMouse ==
    /\ \E fb_scale \in {1, 2} : self = NewViewer(FALSE, fb_scale)
    /\ camera = NoCall
    /\ last = NoEvent
    /\ nev = 0
    /\ pc = IdleThreads
    /\ gui_lock = FALSE
    /\ local = NoLocals

MouseButton ==
    \E left_down \in BOOLEAN, right_down \in BOOLEAN,
       x \in CursorHalf, y \in CursorHalf :
        /\ nev < MaxMouseEvents
        /\ self' = _mouse_button_callback(self, left_down, right_down, x, y)
        /\ last' = [op |-> "mouse_button", xpos |-> x, ypos |-> y,
                    mod_shift |-> FALSE, y_offset |-> 0]
        /\ nev' = nev + 1
        /\ UNCHANGED <<camera, pc, gui_lock, local>>

\* _cursor_pos_callback is called: the early return, or the locals action,
\* dx, dy and height, and the callback is at its with statement
CursorPos ==
    \E xpos \in CursorHalf, ypos \in CursorHalf, mod_shift \in BOOLEAN :
        /\ pc["cursor"] = "idle" /\ nev < MaxMouseEvents
        /\ IF cursor_ignored(self)
           THEN UNCHANGED <<pc, local>>
           ELSE /\ Goto("cursor", "c_acquire")
                /\ local' = [local EXCEPT !["cursor"] =
                     Some([xpos |-> xpos, ypos |-> ypos, mod_shift |-> mod_shift,
                           call |-> cursor_locals(self, xpos, ypos, mod_shift)])]
        /\ last' = [op |-> "cursor_pos", xpos |-> xpos, ypos |-> ypos,
                    mod_shift |-> mod_shift, y_offset |-> 0]
        /\ nev' = nev + 1
        /\ UNCHANGED <<self, camera, gui_lock>>

\* _scroll_callback is called and is at its with statement
Scroll ==
    \E y_offset \in ScrollOffsets :
        /\ pc["scroll"] = "idle" /\ nev < MaxMouseEvents
        /\ local' = [local EXCEPT !["scroll"] = Some(y_offset)]
        /\ Goto("scroll", scroll_entry)
        /\ last' = [op |-> "scroll", xpos |-> 0, ypos |-> 0,
                    mod_shift |-> FALSE, y_offset |-> y_offset]
        /\ nev' = nev + 1
        /\ UNCHANGED <<self, camera, gui_lock>>

NextMouse ==
    \/ MouseButton \/ CursorPos \/ Scroll
    \/ Acquire \/ CursorCamera \/ CursorStore \/ ScrollCamera

SpecMouse == InitMouse /\ [][NextMouse]_vars

----------------------------------------------------------------------------
(* SpecRender: the main loop adds overlay text and markers and calls       *)
(* MjViewer.render; GLFW delivers key events inside glfw.poll_events().  A *)
(* pass rebuilds the overlay, then enters the with block of the base       *)
(* render call, then draws.  local["render"] holds the call's branch       *)
(* (paused) and the history of the calls: added is the text added since    *)
(* the previous call ended, drawn and hidden are the overlay and           *)
(* _hide_overlay at the latest base render call, passes counts the         *)
(* completed passes, incs sums the increments.                             *)

MaxRenders == 3

MaxRenderEvents == 2

MaxElapsed == 60

UserTexts == {"user text a", "user text b"}

RenderKeys == {keys.hide_overlay, keys.adapt}

NoRenders ==
    [paused |-> FALSE, added |-> <<>>, drawn |-> <<>>, hidden |-> FALSE,
     raised |-> FALSE, calls |-> 0, passes |-> 0, incs |-> 0]

\* the wall-clock times a pass can take for which the new _time_per_render
\* and the next increment are whole numbers of their units
ElapsedTimes(s) ==
    {e \in 0..MaxElapsed :
        /\ (9 * s._time_per_render + e) % 10 = 0
        /\ (s.sim.timestep * s.sim.nsubsteps * LoopUnit)
              % (time_per_render(s, e) * s._run_speed) = 0}

InitRender ==
    /\ \E display_all_text \in BOOLEAN, n \in {1, 4} :
          self = [NewViewer(display_all_text, 1) EXCEPT !.sim.nsubsteps = n]
    /\ camera = NoCall
    /\ last = NoEvent
    /\ nev = 0
    /\ pc = IdleThreads
    /\ gui_lock = FALSE
    /\ local = [NoLocals EXCEPT !["render"] = NoRenders]

\* between two render calls the main loop adds a line of overlay text
AddOverlay ==
    \E text1 \in UserTexts :
        /\ pc["render"] = "idle" /\ nev < MaxRenderEvents
        /\ self' = add_overlay(self, text1)
        /\ local' = [local EXCEPT !["render"].added = Append(@, text1)]
        /\ nev' = nev + 1
        /\ UNCHANGED <<camera, last, pc, gui_lock>>

\* between two render calls the main loop adds a marker
AddMarker ==
    /\ pc["render"] = "idle" /\ nev < MaxRenderEvents
    /\ self' = add_marker(self, "marker")
    /\ nev' = nev + 1
    /\ UNCHANGED <<camera, last, pc, gui_lock, local>>

\* the main loop calls render: the statements before the loops
RenderBegin ==
    /\ pc["render"] = "idle" /\ local["render"].calls < MaxRenders
    /\ self' = render_begin(self)
    /\ local' = [local EXCEPT
                    !["render"].paused = self._paused,
                    !["render"].raised = FALSE,
                    !["render"].calls = @ + 1,
                    !["render"].incs =
                        IF self._paused THEN @ ELSE @ + loop_increment(self)]
    /\ Goto("render", "r_loop")
    /\ UNCHANGED <<camera, last, nev, gui_lock>>

\* one more turn of the loop: render_inner_loop up to the with statement of
\* the base render call, or up to the error raised while the overlay is
\* built, or, the base render call returning at once for want of a window,
\* up to the end of the pass
RenderPass ==
    /\ pc["render"] = "r_loop"
    /\ IF local["render"].paused THEN self._paused ELSE self._loop_count > 0
    /\ LET b == build_overlay(self)
       IN IF b.raised
          THEN /\ self' = b.s
               /\ local' = [local EXCEPT !["render"].raised = TRUE,
                                         !["render"].added = <<>>]
               /\ Goto("render", "idle")
          ELSE \E window \in {"none", "closing", "open"} :
                 IF window = "none"
                 THEN \E elapsed \in ElapsedTimes(b.s) :
                        LET e == end_pass(b.s, elapsed, local["render"].paused)
                        IN /\ self' = e.s
                           /\ local' = [local EXCEPT !["render"].passes = @ + 1]
                           /\ Goto("render", e.loc)
                 ELSE /\ self' = IF window = "closing"
                                 THEN [b.s EXCEPT !.exit = TRUE] ELSE b.s
                      /\ UNCHANGED local
                      /\ Goto("render", "r_acquire")
    /\ UNCHANGED <<camera, last, nev, gui_lock>>

\* the base render call draws the overlay as it is now and the with block
\* is left
BaseRender ==
    /\ pc["render"] = "r_draw"
    /\ gui_lock' = FALSE
    /\ local' = [local EXCEPT !["render"].drawn = self._overlay,
                              !["render"].hidden = self._hide_overlay]
    /\ Goto("render", "r_poll")
    /\ UNCHANGED <<self, camera, last, nev>>

\* glfw.poll_events() of the base render call delivers a key event
PollKey ==
    /\ pc["render"] = "r_poll"
    /\ KeyEventIn(RenderKeys, MaxRenderEvents)

\* glfw.poll_events() returns; the pass ends and the loop goes on or stops
PassEnd ==
    /\ pc["render"] = "r_poll"
    /\ \E elapsed \in ElapsedTimes(self) :
          LET e == end_pass(self, elapsed, local["render"].paused)
          IN self' = e.s /\ Goto("render", e.loc)
    /\ local' = [local EXCEPT !["render"].passes = @ + 1]
    /\ UNCHANGED <<camera, last, nev, gui_lock>>

\* the loop is left
LoopExit ==
    /\ pc["render"] = "r_loop"
    /\ ~(IF local["render"].paused THEN self._paused ELSE self._loop_count > 0)
    /\ Goto("render", "r_end")
    /\ UNCHANGED <<self, camera, last, nev, gui_lock, local>>

\* the last two statements of render; the call returns
RenderEnd ==
    /\ pc["render"] = "r_end"
    /\ self' = render_end(self)
    /\ local' = [local EXCEPT !["render"].added = <<>>]
    /\ Goto("render", "idle")
    /\ UNCHANGED <<camera, last, nev, gui_lock>>

NextRender ==
    \/ AddOverlay \/ AddMarker \/ RenderBegin \/ RenderPass \/ Acquire
    \/ BaseRender \/ PollKey \/ PassEnd \/ LoopExit \/ RenderEnd

SpecRender == InitRender /\ [][NextRender]_vars

----------------------------------------------------------------------------
(* Properties of the mouse callbacks, the lock and the remaining hotkeys. *)

\* the step is a call of _cursor_pos_callback
CursorCalled == nev' = nev + 1 /\ last'.op = "cursor_pos"

\* the step is the camera call of _cursor_pos_callback
CursorMoves == pc["cursor"] = "c_camera" /\ pc'["cursor"] = "c_store"

\* the step is the camera call of _scroll_callback
ScrollMoves == pc["scroll"] = "s_camera" /\ pc'["scroll"] = "idle"

\* C6: a cursor-move event with the right button held issues a MOVE camera
\* action, with only the left button held a ROTATE action (H with shift,
\* V without), a scroll event issues a ZOOM action of -0.05 x y_offset, and
\* a cursor-move event with no button held changes neither the camera nor
\* the remembered mouse position.
C6_MouseCamera ==
    [][/\ (CursorCalled /\ self._button_right_pressed) =>
            /\ pc'["cursor"] = "c_acquire"
            /\ local'["cursor"][1].call.action \in {"MOUSE_MOVE_H", "MOUSE_MOVE_V"}
       /\ (CursorCalled /\ self._button_left_pressed
                /\ ~self._button_right_pressed) =>
            /\ pc'["cursor"] = "c_acquire"
            /\ local'["cursor"][1].call.action =
                  IF last'.mod_shift THEN "MOUSE_ROTATE_H" ELSE "MOUSE_ROTATE_V"
       /\ CursorMoves =>
            /\ camera'.n = camera.n + 1
            /\ camera'.action = local["cursor"][1].call.action
       /\ ScrollMoves =>
            /\ camera'.n = camera.n + 1
            /\ camera'.action = "MOUSE_ZOOM"
            /\ camera'.dx = 0
            /\ camera'.dy * 100 = -5 * local["scroll"][1] * camera'.den
       /\ (CursorCalled /\ ~self._button_left_pressed
                /\ ~self._button_right_pressed) =>
            /\ pc'["cursor"] = "idle"
            /\ camera' = camera
            /\ self'._last_mouse_x = self._last_mouse_x
            /\ self'._last_mouse_y = self._last_mouse_y]_vars

\* C6 witness: with both buttons held, a shifted cursor move away from the
\* remembered position issued a MOVE action and the callback has returned.
C6_Witness ==
    /\ last.op = "cursor_pos" /\ pc["cursor"] = "idle"
    /\ self._button_right_pressed /\ self._button_left_pressed
    /\ camera.action = "MOUSE_MOVE_H" /\ camera.n >= 1 /\ camera.dx # 0

\* C7 as stated: every callback statement that writes viewer or camera
\* state runs with _gui_lock held, so none runs while render holds the lock.
C7_AllWritesLocked ==
    /\ \A t \in Threads \ {"render"} : pc[t] \in WriteLocs => t \in Holders
    /\ pc["render"] = "r_draw" => \A t \in Threads \ {"render"} : pc[t] \notin WriteLocs

\* C7 amended: the camera updates of the cursor and scroll callbacks run
\* with _gui_lock held and never while render is inside its with block.
C7_CameraWritesLocked ==
    \A t \in {"cursor", "scroll"} :
        pc[t] \in CameraLocs => (gui_lock /\ pc["render"] # "r_draw")

\* C7 witness: the scroll callback is updating the camera under the lock
\* while render waits for the lock and the button callback is about to
\* write the button flags without it.
C7_Witness ==
    /\ pc["scroll"] = "s_camera" /\ gui_lock
    /\ pc["render"] = "r_acquire"
    /\ pc["button"] = "b_store"

\* C8: move_camera is never in progress during the base-class render call,
\* at most one thread is inside a with block, and the lock is held exactly
\* while some thread is inside one (so it is free once they have returned).
C8_CameraRenderExclusive ==
    /\ ~(pc["render"] = "r_draw" /\ \E t \in {"cursor", "scroll"} : pc[t] \in CameraLocs)
    /\ Cardinality(Holders) <= 1
    /\ gui_lock = (Holders # {})

\* C8 witness: render is drawing under the lock while the cursor callback,
\* with a button held, waits to enter its with block.
C8_Witness ==
    /\ pc["render"] = "r_draw" /\ gui_lock
    /\ pc["cursor"] = "c_acquire"

\* C10: recording is on or some keyboard or gamepad callback switches it
\* on, and while it is on a rendering pass puts exactly one frame on the
\* video queue.
C10_RecordingHotkey ==
    /\ self._record_video \/ \E r \in EventResults(self) : r._record_video
    /\ self._record_video =>
          record_frame(self)._video_queue = self._video_queue + 1

----------------------------------------------------------------------------
(* The gamepad bridge. *)

\* the control named by the pending gamepad event of s
PendingButton(s) == id2xbox[s.xboxContId[1]]

\* s with the pending gamepad event cleared
PendingCleared(s) == [s EXCEPT !.xboxContId = None, !.xbox_val = None]

\* the keyboard key C11 gives each button
C11_MappedKey ==
    [B |-> keys.restart, X |-> keys.move_elbow, Y |-> keys.demo_toggle,
     LB |-> keys.pick_up, RB |-> keys.reach_target, back |-> keys.exit,
     start |-> keys.hot_keys, xbox |-> keys.adapt]

\* C11: xbox_callback on a pending event (button, value) for B, X, Y, LB,
\* RB, back, start or xbox leaves the viewer as key_callback with the mapped
\* key and action = value does (the pending event cleared); for button A
\* only the pending event is cleared.
C11_ButtonsReplayKeys ==
    [][(last'.op = "xbox_callback" /\ self.xboxContId # None) =>
            /\ PendingButton(self) \in DOMAIN C11_MappedKey =>
                  self' = PendingCleared(
                              key_callback(self, C11_MappedKey[PendingButton(self)],
                                           self.xbox_val[1], last'.z_held,
                                           NoRounding))
            /\ PendingButton(self) = "A" => self' = PendingCleared(self)]_vars

\* C11 witness: a release of button B was replayed as the restart key and
\* restart_sim is set, the pending event cleared.
C11_Witness ==
    /\ last.op = "xbox_callback"
    /\ last.key = keys.restart /\ last.action = Some(RELEASE)
    /\ self.restart_sim
    /\ self.xboxContId = None /\ self.xbox_val = None

\* C14: a right-trigger event flips target_z_toggle exactly when its value
\* is above 95, and while target_z_toggle is on every forward/backward key
\* event, whatever its action, leaves x and y of the target and of the elbow
\* force unchanged.
C14_TriggerTogglesZ ==
    [][/\ (last'.op = "xbox_callback" /\ self.xboxContId # None
            /\ PendingButton(self) = "rtrigger") =>
              self'.target_z_toggle =
                  (IF self.xbox_val[1] > 95 THEN ~self.target_z_toggle
                   ELSE self.target_z_toggle)
       /\ (last'.op \in {"key", "xbox_callback"} /\ last'.action # None
            /\ last'.key \in {keys.forward, keys.backward}
            /\ self.target_z_toggle) =>
              \A i \in 1..2 : /\ self'.target[i] = self.target[i]
                               /\ self'.elbow_force[i] = self.elbow_force[i]]_vars

\* the order in which C15 steps through the planets
C15_Order == <<"mars", "earth", "moon", "jupiter", "ISS">>

C15_Index(p) == CHOOSE i \in 1..5 : C15_Order[i] = p

\* C15: a d-pad left (right) event selects the planet before (after) the
\* currently selected one in the order mars, earth, moon, jupiter, ISS,
\* staying at mars and at ISS, and the selection is always one of the five.
C15_DpadStepsPlanet ==
    [][/\ (last'.op = "xbox_callback" /\ self.xboxContId # None
            /\ PendingButton(self) = "dpad"
            /\ self.xbox_val \in {<<-1, 0>>, <<1, 0>>}) =>
              self'.planet =
                  C15_Order[Max(1, Min(5, C15_Index(self.planet) + self.xbox_val[1]))]
       /\ self'.planet \in {C15_Order[i] : i \in 1..5}]_vars

\* C15 witness: a d-pad event was replayed as the ISS hotkey and ISS is
\* selected.
C15_Witness ==
    /\ last.op = "xbox_callback"
    /\ last.key = keys.ISS /\ last.action = Some(RELEASE)
    /\ self.planet = "ISS"

\* the arrow key C16 gives a deflection (x, y)
C16_Arrow(x, y) ==
    IF Abs(x) > Abs(y)
    THEN (IF x >= 0 THEN keys.right ELSE keys.left)
    ELSE (IF y >= 0 THEN keys.forward ELSE keys.backward)

\* C16: a right-thumbstick deflection (x, y) with |x| + |y| > 10 is replayed
\* as exactly one arrow key with action 1, right/left by the sign of x when
\* |x| > |y| and forward/backward by the sign of y otherwise; with
\* |x| + |y| <= 10 no key is replayed and the viewer keeps its state, the
\* pending event cleared.
C16_ThumbstickArrow ==
    [][(last'.op = "xbox_callback" /\ self.xboxContId # None
        /\ PendingButton(self) \in {"rthumbx", "rthumby", "rthumb"}) =>
            LET x == self.xbox_val[1]
                y == self.xbox_val[2]
            IN IF Abs(x) + Abs(y) > 10
               THEN /\ last'.key = C16_Arrow(x, y)
                    /\ last'.key \in ArrowKeys
                    /\ last'.action = Some(1)
                    /\ xbox_conversion(self).s = self
               ELSE /\ last'.key = "None" /\ last'.action = None
                    /\ xbox_conversion(self).s = self
                    /\ self' = PendingCleared(self)]_vars

\* C16 witness: a deflection was replayed as a press of the left arrow key.
C16_Witness ==
    /\ last.op = "xbox_callback"
    /\ last.key = keys.left /\ last.action = Some(1)
    /\ last.arrow_keys /\ self.key_pressed

----------------------------------------------------------------------------
(* MjViewer.render. *)

\* the step is the draw of a base render call inside MjViewer.render
BaseRenderCall == pc["render"] = "r_draw" /\ pc'["render"] = "r_poll"

\* the step is a pass whose base render call returns at once: no window
NoWindowPass ==
    /\ pc["render"] = "r_loop"
    /\ local'["render"].passes = local["render"].passes + 1

\* the step is the start of a call of MjViewer.render
RenderCalled == pc["render"] = "idle" /\ pc'["render"] = "r_loop"

\* the step is the return of a call of MjViewer.render
RenderReturns == pc["render"] = "r_end" /\ pc'["render"] = "idle"

\* the step is a key event delivered while render polls
KeyPolled == pc["render"] = "r_poll" /\ nev' = nev + 1 /\ last'.op = "key"

\* the built-in text of a viewer, all of it
BuiltInText(s) ==
    IF s.display_all_text
    THEN default_text_head(s) \o default_text_tail \o custom_keys_text
    ELSE custom_keys_text

\* C12: at each base render call the overlay holds exactly the text the user
\* added before this render call plus the built-in text; when render returns
\* _markers and _overlay are empty; the user text a call starts from is only
\* what was added since the previous call.
C12_OverlayRegenerated ==
    [][/\ (BaseRenderCall \/ NoWindowPass) =>
             self'._overlay = local["render"].added \o BuiltInText(self)
       /\ RenderReturns => self'._markers = <<>> /\ self'._overlay = <<>>
       /\ RenderCalled => self'._user_overlay = local["render"].added]_vars

\* C13: unpaused and with _render_every_frame off, after every render call
\* _loop_count is the sum of the increments minus one per pass and lies in
\* (-1, 0], so the number of passes is the ceiling of the sum.
C13_FramePacing ==
    (pc["render"] = "idle" /\ local["render"].calls > 0
     /\ ~self._paused /\ ~self._render_every_frame) =>
        /\ self._loop_count =
              local["render"].incs - local["render"].passes * LoopUnit
        /\ -LoopUnit < self._loop_count /\ self._loop_count <= 0
        /\ (local["render"].passes - 1) * LoopUnit < local["render"].incs
        /\ local["render"].incs <= local["render"].passes * LoopUnit

\* C17: each RELEASE of H flips _hide_overlay, and while _hide_overlay is on
\* the overlay is empty at every base render call, whatever text the user
\* added before the render call.
C17_HideHidesAll ==
    [][/\ (KeyPolled /\ last'.key = keys.hide_overlay
            /\ last'.action = Some(RELEASE)) =>
              self'._hide_overlay = ~self._hide_overlay
       /\ ((BaseRenderCall \/ NoWindowPass) /\ self._hide_overlay) =>
              self'._overlay = <<>>]_vars

\* C17 witness: a base render call with the overlay hidden by a release of
\* H, in a render call that started with user text: the overlay drawn was
\* empty.
C17_Witness ==
    /\ pc["render"] = "r_poll"
    /\ last.op = "key" /\ last.key = keys.hide_overlay
    /\ local["render"].hidden /\ self._hide_overlay
    /\ local["render"].added # <<>>
    /\ self._user_overlay = local["render"].added
    /\ local["render"].drawn = <<>>
    /\ self._overlay = <<>>

\* C18: on a viewer built with display_all_text no pass raises an error, and
\* at a base render call with the overlay not hidden the overlay holds the
\* default text: run speed, Stop/Start, FPS, solver iterations, step,
\* timestep, n_substeps.
C18_DefaultTextShown ==
    self.display_all_text =>
        /\ ~local["render"].raised
        /\ (pc["render"] = "r_poll" /\ ~local["render"].hidden) =>
              \A text1 \in {"Run speed", "Stop", "FPS", "Solver iterations",
                             "Step", "timestep", "n_substeps"} :
                  \E i \in DOMAIN self._overlay : self._overlay[i] = text1

====
